---- MODULE Spec2Model ----
(***************************************************************************)
(* Monte Carlo study of the OLS estimator (src/monte.py).                  *)
(*                                                                         *)
(* generate_data draws a sample from a linear model with Gaussian noise,  *)
(* simple_linear_regression fits it in closed form, and                   *)
(* monte_carlo_simulation repeats both num_simulations times, collecting  *)
(* the coefficient estimates in two lists.                                *)
(*                                                                         *)
(* Numbers.  A float is modelled as an exact rational [n, d] in lowest    *)
(* terms with d > 0, extended by the three IEEE specials the code can     *)
(* produce: nan = [0, 0], +inf = [1, 0], -inf = [-1, 0].  Rounding and    *)
(* the sign of zero are not modelled: arithmetic is exact.                *)
(*                                                                         *)
(* Random source.  numpy's global generator is a deterministic function   *)
(* of its state (a key vector and a position in it).  It is modelled as   *)
(* rng = [key, pos]: the key is a cycle of raw words fixed by the seed,   *)
(* draw number j reads the word at position pos + j, and a call that      *)
(* draws k values advances pos by k.  Every key over Words is a possible  *)
(* seed, so every tuple of draws of length <= KeyLen occurs.              *)
(***************************************************************************)
EXTENDS Integers, Sequences, FiniteSets, TLC

\* ------------------------------------------------------------------ bounds
MaxSims == 2
MaxN == 3
KeyLen == 3

Words == {0, 1, 2}
SimCounts == -1 .. MaxSims
SampleSizes == -1 .. MaxN

\* -------------------------------------------------------- float arithmetic
Abs(k) == IF k < 0 THEN -k ELSE k
Sign(k) == IF k < 0 THEN -1 ELSE IF k > 0 THEN 1 ELSE 0

RECURSIVE GCD(_, _)
GCD(a, b) == IF b = 0 THEN a ELSE GCD(b, a % b)

\* p / q in lowest terms, q > 0
Norm(p, q) == LET g == GCD(Abs(p), q) IN [n |-> p \div g, d |-> q \div g]

Rat(k) == [n |-> k, d |-> 1]
NaN == [n |-> 0, d |-> 0]
Inf(s) == [n |-> s, d |-> 0]
IsNaN(a) == a.d = 0 /\ a.n = 0
IsInf(a) == a.d = 0 /\ a.n # 0
IsFinite(a) == a.d > 0

Add(a, b) ==
    IF IsNaN(a) \/ IsNaN(b) THEN NaN
    ELSE IF IsInf(a) /\ IsInf(b) THEN (IF a.n = b.n THEN a ELSE NaN)
    ELSE IF IsInf(a) THEN a
    ELSE IF IsInf(b) THEN b
    ELSE Norm(a.n * b.d + b.n * a.d, a.d * b.d)

Neg(a) == [n |-> -a.n, d |-> a.d]
Sub(a, b) == Add(a, Neg(b))

Mul(a, b) ==
    IF IsNaN(a) \/ IsNaN(b) THEN NaN
    ELSE IF IsInf(a) \/ IsInf(b)
         THEN (IF a.n = 0 \/ b.n = 0 THEN NaN ELSE Inf(Sign(a.n) * Sign(b.n)))
    ELSE Norm(a.n * b.n, a.d * b.d)

\* numpy float64 division: x / 0 is +-inf, 0 / 0 is nan, no exception
Div(a, b) ==
    IF IsNaN(a) \/ IsNaN(b) THEN NaN
    ELSE IF IsInf(b) THEN (IF IsInf(a) THEN NaN ELSE Rat(0))
    ELSE IF b.n = 0 THEN (IF a.n = 0 THEN NaN ELSE Inf(Sign(a.n)))
    ELSE IF IsInf(a) THEN Inf(a.n * Sign(b.n))
    ELSE Norm(a.n * b.d * Sign(b.n), a.d * Abs(b.n))

\* ------------------------------------------------------------ numpy arrays
RECURSIVE np_sum(_)
np_sum(a) == IF a = <<>> THEN Rat(0) ELSE Add(Head(a), np_sum(Tail(a)))

\* the mean of an empty array is 0 / 0 = nan
np_mean(a) == Div(np_sum(a), Rat(Len(a)))

\* ------------------------------------------------------------ random source
\* the j-th word the generator g hands out next
Word(g, j) == g.key[((g.pos + j - 1) % Len(g.key)) + 1]

\* a value of [0, 1) on a grid of tenths
random_sample(w) == Norm(w, 10)

\* a standard normal deviate, of either sign
standard_normal(w) == Rat(w - 1)

np_random_uniform(g, low, high, size) ==
    [j \in 1 .. size |->
        Add(Rat(low), Mul(Rat(high - low), random_sample(Word(g, j))))]

np_random_normal(g, loc, scale, size) ==
    [j \in 1 .. size |-> Add(Rat(loc), Mul(scale, standard_normal(Word(g, j))))]

Advance(g, k) == [g EXCEPT !.pos = @ + k]

\* ------------------------------------------------------------ generate_data
\* the noise term left out
ResponseWithoutNoise(b0, b1, xs, es) ==
    [j \in 1 .. Len(xs) |-> Add(b0, Mul(b1, xs[j]))]

\* y = beta_0 + beta_1 * x + error, elementwise
Response(b0, b1, xs, es) ==
    [j \in 1 .. Len(xs) |-> Add(Add(b0, Mul(b1, xs[j])), es[j])]

generate_data(g, size, b0, b1, std) ==
    LET xs == np_random_uniform(g, 0, 10, size)
        es == np_random_normal(Advance(g, size), 0, std, size)
    IN  [x |-> xs, error |-> es, y |-> Response(b0, b1, xs, es),
         rng |-> Advance(Advance(g, size), size)]

\* ------------------------------------------------- simple_linear_regression
Centered(a, m) == [j \in 1 .. Len(a) |-> Sub(a[j], m)]
Products(a, b) == [j \in 1 .. Len(a) |-> Mul(a[j], b[j])]

\* the sums taken over the raw values instead of the deviations from the means
slr_uncentered(xs, ys) ==
    LET x_mean == np_mean(xs)
        y_mean == np_mean(ys)
        b1 == Div(np_sum(Products(xs, ys)), np_sum(Products(xs, xs)))
        b0 == Sub(y_mean, Mul(b1, x_mean))
    IN  <<b0, b1>>

\* the intercept taken as y_mean - beta_1, x_mean forgotten
slr_intercept_without_x_mean(xs, ys) ==
    LET x_mean == np_mean(xs)
        y_mean == np_mean(ys)
        dx == Centered(xs, x_mean)
        dy == Centered(ys, y_mean)
        b1 == Div(np_sum(Products(dx, dy)), np_sum(Products(dx, dx)))
        b0 == Sub(y_mean, b1)
    IN  <<b0, b1>>

\* a zero denominator answered with a flat line through the mean
slr_guarded(xs, ys) ==
    LET x_mean == np_mean(xs)
        y_mean == np_mean(ys)
        dx == Centered(xs, x_mean)
        dy == Centered(ys, y_mean)
        den == np_sum(Products(dx, dx))
        b1 == IF den = Rat(0) THEN Rat(0) ELSE Div(np_sum(Products(dx, dy)), den)
        b0 == Sub(y_mean, Mul(b1, x_mean))
    IN  <<b0, b1>>

simple_linear_regression(xs, ys) ==
    LET x_mean == np_mean(xs)
        y_mean == np_mean(ys)
        dx == Centered(xs, x_mean)
        dy == Centered(ys, y_mean)
        b1 == Div(np_sum(Products(dx, dy)), np_sum(Products(dx, dx)))
        b0 == Sub(y_mean, Mul(b1, x_mean))
    IN  <<b0, b1>>

\* -------------------------------------------------------------------- state
VARIABLES
    num_simulations, n, beta_0, beta_1, noise_std,  \* arguments of the run
    rng,                                            \* the global random source
    pc,                                             \* position in the code
    exception,                                      \* what was raised, if anything
    calls,                                          \* invocations started
    trial,                                          \* iterations of the loop completed
    x, y, error,                                    \* the current sample
    beta_0_hat, beta_1_hat,                         \* the current fit
    beta_0_estimates, beta_1_estimates,             \* the two accumulators
    result,                                         \* what the run returned
    first,                                          \* what the first invocation returned
    samples, fits                                   \* history: per trial, what was drawn and fitted

args == <<num_simulations, n, beta_0, beta_1, noise_std>>
sample == <<x, y, error>>
hats == <<beta_0_hat, beta_1_hat>>
estimates == <<beta_0_estimates, beta_1_estimates>>
history == <<samples, fits>>
vars == <<args, rng, pc, exception, calls, trial, sample, hats, estimates,
          result, first, history>>

None == <<>>

Keys == [1 .. KeyLen -> Words]

Idle ==
    /\ exception = ""
    /\ calls = 0
    /\ trial = 0
    /\ x = <<>> /\ y = <<>> /\ error = <<>>
    /\ beta_0_hat = Rat(0) /\ beta_1_hat = Rat(0)
    /\ beta_0_estimates = <<>> /\ beta_1_estimates = <<>>
    /\ result = None
    /\ first = None
    /\ samples = <<>> /\ fits = <<>>

\* monte_carlo_simulation is about to be called; the model parameters are
\* valid ModelParameters (noise_std >= 0)
Init ==
    /\ num_simulations \in SimCounts
    /\ n \in SampleSizes
    /\ beta_0 \in {Rat(0), Rat(2)}
    /\ beta_1 \in {Rat(1), Rat(3)}
    /\ noise_std \in {Rat(0), Rat(1)}
    /\ rng \in [key : Keys, pos : {0}]
    /\ pc = "start"
    /\ Idle

\* ------------------------------------------------------------------ actions
\* the two lists created once and shared by every call
EnterRunSharedLists ==
    /\ trial' = 0
    /\ UNCHANGED <<beta_0_estimates, beta_1_estimates>>

\* lines 22-23: each call creates two new empty lists
EnterRun ==
    /\ trial' = 0
    /\ beta_0_estimates' = <<>>
    /\ beta_1_estimates' = <<>>

\* line 21: the call binds the arguments
Call ==
    /\ pc = "start"
    /\ pc' = "loop"
    /\ calls' = calls + 1
    /\ EnterRun
    /\ UNCHANGED <<args, rng, exception, sample, hats, result, first, history>>

\* a second invocation with the same arguments, after the random source has
\* been put back into the state the first one started from
CallAgain ==
    /\ pc = "done"
    /\ calls = 1
    /\ first' = result
    /\ result' = None
    /\ rng' = [rng EXCEPT !.pos = 0]
    /\ samples' = <<>>
    /\ fits' = <<>>
    /\ pc' = "loop"
    /\ calls' = calls + 1
    /\ EnterRun
    /\ UNCHANGED <<args, exception, sample, hats>>

\* line 25: for _ in range(num_simulations)
range_one_short(i, stop) == i < stop - 1
range_has_next(i, stop) == i < stop

LoopHead ==
    /\ pc = "loop"
    /\ \/ /\ range_has_next(trial, num_simulations)
          /\ pc' = "generate"
       \/ /\ ~range_has_next(trial, num_simulations)
          /\ pc' = "return"
    /\ UNCHANGED <<args, rng, exception, calls, trial, sample, hats, estimates,
                   result, first, history>>

\* line 26: x, y = generate_data(n, beta_0, beta_1, noise_std); numpy raises
\* ValueError for a negative size, before it draws anything
Generate ==
    /\ pc = "generate"
    /\ \/ /\ n < 0
          /\ pc' = "error"
          /\ exception' = "ValueError"
          /\ UNCHANGED <<rng, sample, samples>>
       \/ /\ n >= 0
          /\ LET d == generate_data(rng, n, beta_0, beta_1, noise_std)
             IN  /\ x' = d.x
                 /\ y' = d.y
                 /\ error' = d.error
                 /\ rng' = d.rng
                 /\ samples' = Append(samples, [x |-> d.x, error |-> d.error, y |-> d.y])
          /\ pc' = "fit"
          /\ UNCHANGED exception
    /\ UNCHANGED <<args, calls, trial, hats, estimates, result, first, fits>>

\* the fit added onto the fit of the trial before (+= for =)
FitAccumulating ==
    /\ pc = "fit"
    /\ LET f == simple_linear_regression(x, y)
           g == <<Add(beta_0_hat, f[1]), Add(beta_1_hat, f[2])>>
       IN  /\ beta_0_hat' = g[1]
           /\ beta_1_hat' = g[2]
           /\ fits' = Append(fits, g)
    /\ pc' = "append"
    /\ UNCHANGED <<args, rng, exception, calls, trial, sample, estimates,
                   result, first, samples>>

\* line 27: beta_0_hat, beta_1_hat = simple_linear_regression(x, y)
Fit ==
    /\ pc = "fit"
    /\ LET f == simple_linear_regression(x, y)
       IN  /\ beta_0_hat' = f[1]
           /\ beta_1_hat' = f[2]
           /\ fits' = Append(fits, f)
    /\ pc' = "append"
    /\ UNCHANGED <<args, rng, exception, calls, trial, sample, estimates,
                   result, first, samples>>

\* the estimates inserted at the front of the lists
PrependEstimates ==
    /\ pc = "append"
    /\ beta_0_estimates' = <<beta_0_hat>> \o beta_0_estimates
    /\ beta_1_estimates' = <<beta_1_hat>> \o beta_1_estimates
    /\ trial' = trial + 1
    /\ pc' = "loop"
    /\ UNCHANGED <<args, rng, exception, calls, sample, hats, result, first, history>>

\* lines 28-29: the two appends that end an iteration
AppendEstimates ==
    /\ pc = "append"
    /\ beta_0_estimates' = Append(beta_0_estimates, beta_0_hat)
    /\ beta_1_estimates' = Append(beta_1_estimates, beta_1_hat)
    /\ trial' = trial + 1
    /\ pc' = "loop"
    /\ UNCHANGED <<args, rng, exception, calls, sample, hats, result, first, history>>

\* line 31: return beta_0_estimates, beta_1_estimates
Return ==
    /\ pc = "return"
    /\ result' = <<beta_0_estimates, beta_1_estimates>>
    /\ pc' = "done"
    /\ UNCHANGED <<args, rng, exception, calls, trial, sample, hats, estimates,
                   first, history>>

Next == Call \/ LoopHead \/ Generate \/ Fit \/ AppendEstimates \/ Return

\* one invocation of monte_carlo_simulation
Spec == Init /\ [][Next]_vars

\* two invocations from the same state of the random source
NextTwice == Next \/ CallAgain
SpecTwice == Init /\ [][NextTwice]_vars

\* simple_linear_regression alone, on arbitrary samples
FitXs == {Rat(0), Rat(1), Rat(2), Rat(3)}
FitYs == {Rat(0), Rat(2), Rat(4), Rat(6)}

InitFit ==
    /\ \E len \in 0 .. MaxN :
          /\ x \in [1 .. len -> FitXs]
          /\ y \in [1 .. len -> FitYs]
          /\ n = len
    /\ num_simulations = 1
    /\ beta_0 = Rat(0) /\ beta_1 = Rat(0) /\ noise_std = Rat(0)
    /\ rng = [key |-> [j \in 1 .. KeyLen |-> 0], pos |-> 0]
    /\ pc = "fit"
    /\ exception = ""
    /\ calls = 1
    /\ trial = 0
    /\ error = <<>>
    /\ beta_0_hat = Rat(0) /\ beta_1_hat = Rat(0)
    /\ beta_0_estimates = <<>> /\ beta_1_estimates = <<>>
    /\ result = None
    /\ first = None
    /\ samples = <<>> /\ fits = <<>>

SpecFit == InitFit /\ [][Fit]_vars

\* ================================================================== claims
Working == {"generate", "fit", "append"}
Finished == {"return", "done"}

\* what is left of the run: the statements still to execute, counted from
\* the iterations left and the position inside the current one
Rank ==
    CASE pc = "start" -> 5
      [] pc = "loop" -> 4
      [] pc = "generate" -> 3
      [] pc = "fit" -> 2
      [] pc \in {"append", "return"} -> 1
      [] OTHER -> 0
Remaining == IF pc = "done" THEN 0 ELSE 4 * (num_simulations - trial) + Rank

\* C1: for n > 1 and num_simulations > 0 the run completes (it raises
\* nothing, and every step brings it closer to its return) and returns two
\* sequences, each of length exactly num_simulations.
C1_ReturnsNumSimulationsEstimates ==
    /\ []((n > 1 /\ num_simulations > 0) =>
            /\ pc # "error" /\ exception = ""
            /\ Remaining >= 0
            /\ Remaining = 0 <=> pc = "done"
            /\ pc = "done" =>
                  /\ Len(result) = 2
                  /\ Len(result[1]) = num_simulations
                  /\ Len(result[2]) = num_simulations)
    /\ [][(n > 1 /\ num_simulations > 0) => Remaining' < Remaining]_vars

C1_Witness ==
    /\ pc = "done"
    /\ n = MaxN
    /\ num_simulations = MaxSims
    /\ Len(result[1]) = MaxSims
    /\ Len(result[2]) = MaxSims

\* C2: a run with n <= 1 fails with an InvalidInput error before the trial
\* loop is entered: it generates no sample, computes no fit, appends no
\* estimate and does not return normally.
C2_RejectsDegenerateSampleSize ==
    n <= 1 =>
        /\ pc \notin Working \cup Finished
        /\ samples = <<>>
        /\ fits = <<>>
        /\ beta_0_estimates = <<>>
        /\ beta_1_estimates = <<>>

\* C3: a run with num_simulations <= 0 or n <= 0 is rejected before any
\* simulation work begins: no draw is consumed, no trial is started and no
\* result, not even an empty one, is returned.
C3_RejectsNonPositiveCounts ==
    (num_simulations <= 0 \/ n <= 0) =>
        /\ rng.pos = 0
        /\ trial = 0
        /\ pc \notin Working
        /\ pc = "done" => exception # ""
        /\ result = None

\* ------------------------------------------------ integer forms of the sums
AllSame(a) == \A i, j \in DOMAIN a : a[i] = a[j]
Integral(a) == \A j \in DOMAIN a : a[j].d = 1

RECURSIVE Total(_)
Total(s) == IF s = <<>> THEN 0 ELSE Head(s) + Total(Tail(s))

\* len * (a[j] - mean(a)), an integer when a is integral
Dev(a, j) == Len(a) * a[j].n - Total([i \in DOMAIN a |-> a[i].n])
\* len^2 * sum((a - mean(a)) * (b - mean(b)))
Cross(a, b) == Total([j \in DOMAIN a |-> Dev(a, j) * Dev(b, j)])

\* b1 = sum((x - xMean)(y - yMean)) / sum((x - xMean)^2) and
\* b0 = yMean - b1 * xMean, with the divisions multiplied out
IsClosedFormOLS(xs, ys, b0, b1) ==
    LET sx == Total([i \in DOMAIN xs |-> xs[i].n])
        sy == Total([i \in DOMAIN ys |-> ys[i].n])
    IN  /\ IsFinite(b0) /\ IsFinite(b1)
        /\ b1.n * Cross(xs, xs) = b1.d * Cross(xs, ys)
        /\ b0.n * b1.d * Len(xs) = b0.d * (b1.d * sy - b1.n * sx)

\* C4: with noise_std = 0 and n > 1 every appended estimate equals the true
\* parameters: the intercept estimate is beta_0 and the slope estimate is
\* beta_1, in every trial.
C4_ZeroNoiseRecoversParameters ==
    (noise_std = Rat(0) /\ n > 1) =>
        \A k \in DOMAIN beta_0_estimates :
            /\ beta_0_estimates[k] = beta_0
            /\ beta_1_estimates[k] = beta_1

\* C4 as amended: with noise_std = 0 and n > 1 the estimate of every trial
\* whose x values are not all identical equals the true parameters.
C4_ZeroNoiseRecoversParametersWhenXVaries ==
    (noise_std = Rat(0) /\ n > 1) =>
        \A k \in DOMAIN beta_0_estimates :
            ~AllSame(samples[k].x) =>
                /\ beta_0_estimates[k] = beta_0
                /\ beta_1_estimates[k] = beta_1

C4_Witness ==
    /\ pc = "done"
    /\ num_simulations = 1 /\ n = 2
    /\ beta_0 = Rat(0) /\ beta_1 = Rat(1) /\ noise_std = Rat(0)
    /\ ~AllSame(samples[1].x)
    /\ result = << <<Rat(0)>>, <<Rat(1)>> >>

\* C5: for a sample whose x values are not all identical the fit is the
\* closed-form OLS solution; for x = [1, 2, 3], y = [2, 4, 6] it is
\* intercept 0 and slope 2.
C5_FitIsClosedFormOLS ==
    pc = "append" =>
        /\ Integral(x) /\ Integral(y) /\ Len(x) = Len(y)
        /\ ~AllSame(x) => IsClosedFormOLS(x, y, beta_0_hat, beta_1_hat)
        /\ (x = <<Rat(1), Rat(2), Rat(3)>> /\ y = <<Rat(2), Rat(4), Rat(6)>>) =>
              (beta_0_hat = Rat(0) /\ beta_1_hat = Rat(2))

C5_Witness ==
    /\ pc = "append"
    /\ x = <<Rat(1), Rat(2), Rat(3)>>
    /\ y = <<Rat(2), Rat(4), Rat(6)>>
    /\ beta_0_hat = Rat(0)
    /\ beta_1_hat = Rat(2)

\* C6: two invocations that start from the same state of the random source
\* with the same arguments return identical intercept and slope sequences.
C6_SameSeedSameResult ==
    (calls = 2 /\ pc = "done") => result = first

C6_Witness ==
    /\ calls = 2 /\ pc = "done"
    /\ num_simulations = 2
    /\ noise_std = Rat(1)
    /\ result = first
    /\ result[2][1] # result[2][2]

\* C7: for n >= 1 generate_data returns x and y of length exactly n with
\* y[i] = beta_0 + beta_1 * x[i] + noise[i] at every index, noise[i] being
\* zero when noise_std is 0; x = [0, 5, 10] with intercept 2, slope 3 and no
\* noise gives y = [2, 17, 32].
C7_SampleLiesOnNoisyLine ==
    /\ (pc = "fit" /\ n >= 1) =>
          /\ Len(x) = n /\ Len(y) = n /\ Len(error) = n
          /\ Integral(x) /\ Integral(y) /\ Integral(error)
          /\ \A j \in 1 .. n :
                /\ y[j].n = beta_0.n + beta_1.n * x[j].n + error[j].n
                /\ noise_std = Rat(0) => error[j] = Rat(0)
    /\ Response(Rat(2), Rat(3), <<Rat(0), Rat(5), Rat(10)>>,
                <<Rat(0), Rat(0), Rat(0)>>) = <<Rat(2), Rat(17), Rat(32)>>

C7_Witness ==
    /\ pc = "fit"
    /\ n >= 2
    /\ beta_0 = Rat(2) /\ beta_1 = Rat(3) /\ noise_std = Rat(1)
    /\ \E j \in 1 .. n : x[j] = Rat(2) /\ error[j] = Rat(-1) /\ y[j] = Rat(7)

====
